---- MODULE Spec2Model ----
(***************************************************************************)
(* Model of caniche-txt-aligner (src/script.py): the VirtualTableWidget    *)
(* (two line columns held in memory, rows of the QTableWidget created on   *)
(* demand) and the MainWindow handlers that drive it.                      *)
(*                                                                         *)
(* Row and column indices are the 0-based row and 1..2 column numbers of   *)
(* the source; TLA+ sequences are 1-based, so line i of a column is        *)
(* content[i + 1].  A text is a sequence of characters.                    *)
(***************************************************************************)
EXTENDS Integers, Sequences, FiniteSets, TLC

\* ---------------------------------------------------------------- bounds
\* Number of handler runs (user actions, worker signals, timeouts) explored.
MaxSteps == 6
\* Rows that fit in the viewport of the table.
ViewportRows == 1
\* self.visible_rows_buffer (50 in the source, scaled with the file lengths).
visible_rows_buffer == 2
\* Largest number of QTimer.singleShot(forceVisibleUpdate) calls pending.
MaxSingleShots == 1
\* batch_size = 1000 in saveChanges, scaled to the files of the model.
batch_size == 2
\* "if total_lines > 10000" in saveChanges, scaled to the files of the model.
DetailedProgressLines == 2
\* The largest batch size the batched write is compared with the direct one for.
MaxBatch == 3
\* "i % 100 == 0" in load_file: progress every 100 lines, scaled to the files of the model.
ProgressEvery == 2
\* Number of loads followed line by line, and of user actions between them, in
\* the specification of the worker.
MaxLoads == 2
\* The interval of self.scroll_timer (100 ms) in ticks of time.
QuietTicks == 2

\* ------------------------------------------------------------------ data
EmptyText == << >>
Texts == {EmptyText, <<"a">>, <<"b">>}
\* self.item(row, col) is None
NoItem == <<"None">>

Max(a, b) == IF a >= b THEN a ELSE b
Min(a, b) == IF a <= b THEN a ELSE b

NL == "\n"

\* The texts of the files of the disk, character by character: files of no,
\* one and two lines, with and without a final newline and empty lines, and
\* longer ones that reach past the rows materialized first.
DiskFiles ==
  {<< >>,
   <<"a">>,
   <<"b", NL, "a">>,
   <<NL, "b", NL>>,
   <<"a", NL, "b", NL, "a", NL>>,
   <<"b", NL, NL, "a", NL, "b">>,
   <<"a", NL, "b", NL, "b", " ", "a", NL, "a", NL, NL, "A", "b">>}

\* for line in f: the lines of a text, each with its terminator.
RECURSIVE fileLines(_, _, _)
fileLines(text, k, line) ==
  IF k > Len(text) THEN IF line = << >> THEN << >> ELSE <<line>>
  ELSE IF text[k] = NL THEN <<Append(line, NL)>> \o fileLines(text, k + 1, << >>)
       ELSE fileLines(text, k + 1, Append(line, text[k]))

\* line.rstrip('\n')
RECURSIVE rstripNewlines(_)
rstripNewlines(line) ==
  IF line # << >> /\ line[Len(line)] = NL
  THEN rstripNewlines(SubSeq(line, 1, Len(line) - 1))
  ELSE line

\* content.append(line.rstrip('\n')) for each line
RECURSIVE stripAll(_)
stripAll(lines) ==
  IF lines = << >> THEN << >>
  ELSE <<rstripNewlines(Head(lines))>> \o stripAll(Tail(lines))

\* The list FileLoaderWorker.load_file emits with finished (is_canceled stays False).
load_file(text) == stripAll(fileLines(text, 1, << >>))

\* '\n'.join(content)
RECURSIVE joinLines(_)
joinLines(content) ==
  IF content = << >> THEN << >>
  ELSE IF Len(content) = 1 THEN content[1]
  ELSE content[1] \o <<NL>> \o joinLines(Tail(content))

\* [""] * n
RECURSIVE EmptyLines(_)
EmptyLines(n) == IF n <= 0 THEN << >> ELSE Append(EmptyLines(n - 1), EmptyText)

\* list.pop(i)
Pop(s, i) == SubSeq(s, 1, i) \o SubSeq(s, i + 2, Len(s))

\* ------------------------------------------------- VirtualTableWidget
\* The widget is a record:
\*   file1_content, file2_content, total_rows, modified_rows  (script.py 194-200)
\*   cells   the QTableWidget's rows; cells[row + 1][col] is the text of
\*           item(row, col) or NoItem
\*   numbers numbers[row + 1] is the number shown by cellWidget(row, 0), 0 if none
\*   colors  colors[row + 1][col] is the background of item(row, col):
\*           NoBrush until setBackground is called on the item
\*   scroll  verticalScrollBar().value(): the first row shown in the viewport
\*   scroll_timer  TRUE while self.scroll_timer is active
\*   stats   the numbers shown by the four statistics labels of the window:
\*           total lines, words of file 1, words of file 2, modified lines
\* Backgrounds of an item: none set, QColor(255, 255, 255), QColor(255, 255, 160).
NoBrush == "none"
White == "white"
Yellow == "yellow"

NewTable ==
  [file1_content |-> << >>, file2_content |-> << >>, total_rows |-> 0,
   modified_rows |-> {}, cells |-> << >>, numbers |-> << >>,
   colors |-> << >>, scroll |-> 0, scroll_timer |-> FALSE,
   stats |-> <<0, 0, 0, 0>>]

rowCount(w) == Len(w.cells)

item(w, row, col) ==
  IF row < 0 \/ row >= rowCount(w) THEN NoItem ELSE w.cells[row + 1][col]

fileContent(w, column) ==
  IF column = 1 THEN w.file1_content ELSE w.file2_content

\* content = "" / if row < len(self.fileN_content): content = self.fileN_content[row]
lineOrEmpty(w, row, col) ==
  IF row < Len(fileContent(w, col)) THEN fileContent(w, col)[row + 1] ELSE EmptyText

\* Largest value of the vertical scroll bar: the last page is full.
scrollMaximum(w) == Max(0, rowCount(w) - ViewportRows)

\* len(line.split()): the maximal runs of characters other than white space.
wordsOf(line) ==
  Cardinality({k \in 1..Len(line) :
                 line[k] # " " /\ (k = 1 \/ line[k - 1] = " ")})

\* len(' '.join(content).split())
RECURSIVE countWordsOf(_)
countWordsOf(content) ==
  IF content = << >> THEN 0
  ELSE wordsOf(Head(content)) + countWordsOf(Tail(content))

countWords(w, column) ==
  IF column = 1 THEN countWordsOf(w.file1_content)
  ELSE IF column = 2 THEN countWordsOf(w.file2_content)
  ELSE 0

\* MainWindow.updateStats: the four labels are set from the widget.
updateStats(w) ==
  [w EXCEPT !.stats = <<w.total_rows, countWords(w, 1), countWords(w, 2),
                        Cardinality(w.modified_rows)>>]

\* rowModified is emitted, and updateStats runs, before the store is written.
handleCellChange(w, row, column) ==
  IF column > 0
  THEN LET m == updateStats([w EXCEPT !.modified_rows = @ \cup {row}])
       IN  IF column = 1 /\ row < Len(w.file1_content)
           THEN [m EXCEPT !.file1_content[row + 1] = item(w, row, column)]
           ELSE IF column = 2 /\ row < Len(w.file2_content)
           THEN [m EXCEPT !.file2_content[row + 1] = item(w, row, column)]
           ELSE m
  ELSE w

\* QTableWidget.setItem: the cell takes the new item and cellChanged is emitted.
setItem(w, row, col, text) ==
  IF row < 0 \/ row >= rowCount(w) THEN w
  ELSE handleCellChange([w EXCEPT !.cells[row + 1][col] = text,
                                  !.colors[row + 1][col] = NoBrush], row, col)

\* QTableWidgetItem.setText: cellChanged is emitted only when the text changes.
setText(w, row, col, text) ==
  IF item(w, row, col) = text THEN w
  ELSE handleCellChange([w EXCEPT !.cells[row + 1][col] = text], row, col)

\* scroll_timer.start(100) on a timer that keeps its deadline when it is active.
startTimerKeepsDeadline(remaining) ==
  IF remaining >= 0 THEN remaining ELSE QuietTicks

\* self.scroll_timer.start(100): the ticks left until the timeout, whatever
\* was left before.
startTimer(remaining) == QuietTicks

\* Vertical scroll bar moved to v: valueChanged -> handleScroll starts the timer.
setScroll(w, v) ==
  IF v = w.scroll THEN w ELSE [w EXCEPT !.scroll = v, !.scroll_timer = TRUE]

visibleRowRange(w) ==
  LET first_visible_row == IF rowCount(w) = 0 THEN 0 ELSE w.scroll
      bottom == w.scroll + ViewportRows - 1
      last_visible_row ==
        IF rowCount(w) > 0 /\ bottom < rowCount(w) THEN bottom
        ELSE IF rowCount(w) > 0 THEN rowCount(w) - 1 ELSE 0
  IN  <<first_visible_row, last_visible_row>>

\* loadContentForRows without the "elif item.text() == ''" branch.
loadContentForCellNoBackfill(w, row, col) ==
  IF item(w, row, col) = NoItem
  THEN setItem(w, row, col, lineOrEmpty(w, row, col))
  ELSE w

\* One cell of loadContentForRows (the body of the two loops).
loadContentForCell(w, row, col) ==
  IF item(w, row, col) = NoItem
  THEN setItem(w, row, col, lineOrEmpty(w, row, col))
  ELSE IF item(w, row, col) = EmptyText
       THEN IF row < Len(fileContent(w, col)) /\ fileContent(w, col)[row + 1] # EmptyText
            THEN setText(w, row, col, fileContent(w, col)[row + 1])
            ELSE w
       ELSE w

RECURSIVE loadContentForRows(_, _, _)
loadContentForRows(w, start_row, end_row) ==
  IF start_row > end_row THEN w
  ELSE loadContentForRows(
         loadContentForCell(loadContentForCell(w, start_row, 1), start_row, 2),
         start_row + 1, end_row)

\* setRowCount(n) for n above the row count, then the number widgets of the new rows.
RECURSIVE growRows(_, _)
growRows(w, n) ==
  IF rowCount(w) >= n THEN w
  ELSE growRows([w EXCEPT !.cells = Append(@, <<NoItem, NoItem>>),
                          !.colors = Append(@, <<NoBrush, NoBrush>>),
                          !.numbers = Append(@, rowCount(w) + 1)], n)

startRow(w) == Max(0, visibleRowRange(w)[1] - visible_rows_buffer)
endRow(w) == Min(w.total_rows - 1, visibleRowRange(w)[2] + visible_rows_buffer)

\* loadVisibleRows that materializes every row of the store.
loadVisibleRowsWholeFile(w) ==
  IF w.total_rows = 0 THEN w
  ELSE loadContentForRows(growRows(w, w.total_rows), startRow(w), endRow(w))

loadVisibleRows(w) ==
  IF w.total_rows = 0 THEN w
  ELSE LET start_row == startRow(w)
           end_row == endRow(w)
           grown == IF end_row >= rowCount(w) THEN growRows(w, end_row + 1) ELSE w
       IN  loadContentForRows(grown, start_row, end_row)

\* setContentFromFile that extends the column instead of replacing it.
setContentFromFileExtends(w, column, content) ==
  LET loaded == IF column = 1 THEN [w EXCEPT !.file1_content = @ \o content]
                ELSE IF column = 2 THEN [w EXCEPT !.file2_content = @ \o content]
                ELSE w
      counted == [loaded EXCEPT !.total_rows =
                    Max(Len(loaded.file1_content), Len(loaded.file2_content))]
  IN  loadVisibleRows(counted)

setContentFromFile(w, column, content) ==
  LET loaded == IF column = 1 THEN [w EXCEPT !.file1_content = content]
                ELSE IF column = 2 THEN [w EXCEPT !.file2_content = content]
                ELSE w
      counted == [loaded EXCEPT !.total_rows =
                    Max(Len(loaded.file1_content), Len(loaded.file2_content))]
  IN  loadVisibleRows(counted)

\* equalizeFiles that puts the empty lines in front of the shorter column.
equalizeFilesInFront(w) ==
  LET max_rows == w.total_rows
  IN  [w EXCEPT
         !.file1_content = IF Len(@) < max_rows THEN EmptyLines(max_rows - Len(@)) \o @ ELSE @,
         !.file2_content = IF Len(@) < max_rows THEN EmptyLines(max_rows - Len(@)) \o @ ELSE @]

equalizeFiles(w) ==
  LET max_rows == w.total_rows
  IN  [w EXCEPT
         !.file1_content = IF Len(@) < max_rows THEN @ \o EmptyLines(max_rows - Len(@)) ELSE @,
         !.file2_content = IF Len(@) < max_rows THEN @ \o EmptyLines(max_rows - Len(@)) ELSE @]

moveTarget(row_index, direction) ==
  IF direction = "up" THEN row_index - 1 ELSE row_index + 1

\* The return value of moveRow.
moveRowResult(w, row_index, direction) ==
  ~(moveTarget(row_index, direction) < 0 \/ moveTarget(row_index, direction) >= w.total_rows)

\* self.fileN_content[row_index], self.fileN_content[target_row] = (swapped)
swapLines(content, row_index, target_row) ==
  IF row_index < Len(content) /\ target_row < Len(content)
  THEN [content EXCEPT ![row_index + 1] = content[target_row + 1],
                       ![target_row + 1] = content[row_index + 1]]
  ELSE content

\* Exchange content of visible cells, one column of the loop.
swapCells(w, row_index, target_row, col) ==
  IF item(w, row_index, col) # NoItem /\ item(w, target_row, col) # NoItem
  THEN LET current_text == item(w, row_index, col)
           target_text == item(w, target_row, col)
       IN  setText(setText(w, row_index, col, target_text), target_row, col, current_text)
  ELSE w

\* moveRow whose limit check is only "target_row < 0".
moveRowNoUpperLimit(w, row_index, direction) ==
  LET target_row == moveTarget(row_index, direction)
  IN  IF target_row < 0 THEN w
      ELSE LET swapped == [w EXCEPT
                 !.file1_content = swapLines(@, row_index, target_row),
                 !.file2_content = swapLines(@, row_index, target_row)]
               shown == swapCells(swapCells(swapped, row_index, target_row, 1),
                                  row_index, target_row, 2)
           IN  [shown EXCEPT !.modified_rows = @ \cup {row_index, target_row}]

\* VirtualTableWidget.moveRow: the table after the call.
moveRow(w, row_index, direction) ==
  LET target_row == moveTarget(row_index, direction)
  IN  IF target_row < 0 \/ target_row >= w.total_rows THEN w
      ELSE LET swapped == [w EXCEPT
                 !.file1_content = swapLines(@, row_index, target_row),
                 !.file2_content = swapLines(@, row_index, target_row)]
               shown == swapCells(swapCells(swapped, row_index, target_row, 1),
                                  row_index, target_row, 2)
           IN  updateStats([shown EXCEPT !.modified_rows = @ \cup {row_index, target_row}])

\* The re-indexing without the shift: rows after the deleted one keep their index.
reindexModifiedNoShift(modified_rows, row_index) ==
  {index \in modified_rows : index # row_index}

\* The re-indexing with "index <= row_index": the deleted row keeps its mark.
reindexModifiedKeepsDeleted(modified_rows, row_index) ==
  {index \in modified_rows : index <= row_index}
    \cup {index - 1 : index \in {j \in modified_rows : j > row_index}}

\* for index in self.modified_rows: ... (script.py 427-435)
reindexModified(modified_rows, row_index) ==
  {index \in modified_rows : index < row_index}
    \cup {index - 1 : index \in {j \in modified_rows : j > row_index}}

\* QTableWidget.removeRow, which also pulls the scroll bar back into its range.
removeRow(w, row_index) ==
  IF row_index < 0 \/ row_index >= rowCount(w) THEN w
  ELSE LET removed == [w EXCEPT !.cells = Pop(@, row_index),
                                !.colors = Pop(@, row_index),
                                !.numbers = Pop(@, row_index)]
       IN  setScroll(removed, Min(removed.scroll, scrollMaximum(removed)))

\* 1, 2, ..., n
RECURSIVE lineNumbers(_)
lineNumbers(n) == IF n <= 0 THEN << >> ELSE Append(lineNumbers(n - 1), n)

\* updateNumberColumn that leaves the number widgets as they are.
updateNumberColumnSkips(w) == w

updateNumberColumn(w) ==
  [w EXCEPT !.numbers = lineNumbers(rowCount(w))]

deleteRowResult(w, row_index) == ~(row_index < 0 \/ row_index >= w.total_rows)

\* deleteRow without "self.total_rows -= 1".
deleteRowKeepsTotal(w, row_index) ==
  IF row_index < 0 \/ row_index >= w.total_rows THEN w
  ELSE LET popped == [w EXCEPT
                 !.file1_content = IF row_index < Len(@) THEN Pop(@, row_index) ELSE @,
                 !.file2_content = IF row_index < Len(@) THEN Pop(@, row_index) ELSE @]
               removed == removeRow(popped, row_index)
               marked == [removed EXCEPT
                 !.modified_rows = reindexModified(@, row_index)]
           IN  updateNumberColumn(marked)

deleteRow(w, row_index) ==
  IF row_index < 0 \/ row_index >= w.total_rows THEN w
  ELSE LET popped == [w EXCEPT
                 !.file1_content = IF row_index < Len(@) THEN Pop(@, row_index) ELSE @,
                 !.file2_content = IF row_index < Len(@) THEN Pop(@, row_index) ELSE @,
                 !.total_rows = @ - 1]
               removed == removeRow(popped, row_index)
               marked == [removed EXCEPT
                 !.modified_rows = reindexModified(@, row_index)]
           IN  updateNumberColumn(marked)

\* The return value of addEmptyRow: the index of the new row.
addEmptyRowResult(w) == w.total_rows

\* addEmptyRow that appends the empty line to the first column only.
addEmptyRowOneColumn(w) ==
  LET appended == [w EXCEPT !.file1_content = Append(@, EmptyText),
                            !.total_rows = @ + 1]
  IN  IF appended.total_rows - 1 <= visibleRowRange(appended)[2] + visible_rows_buffer
      THEN LET row_count == rowCount(appended)
               inserted == [appended EXCEPT
                 !.cells = Append(@, <<NoItem, NoItem>>),
                 !.colors = Append(@, <<NoBrush, NoBrush>>),
                 !.numbers = Append(@, row_count + 1)]
           IN  setItem(setItem(inserted, row_count, 1, EmptyText), row_count, 2, EmptyText)
      ELSE appended

addEmptyRow(w) ==
  LET appended == [w EXCEPT !.file1_content = Append(@, EmptyText),
                            !.file2_content = Append(@, EmptyText),
                            !.total_rows = @ + 1]
  IN  IF appended.total_rows - 1 <= visibleRowRange(appended)[2] + visible_rows_buffer
      THEN LET row_count == rowCount(appended)
               inserted == [appended EXCEPT
                 !.cells = Append(@, <<NoItem, NoItem>>),
                 !.colors = Append(@, <<NoBrush, NoBrush>>),
                 !.numbers = Append(@, row_count + 1)]
           IN  setItem(setItem(inserted, row_count, 1, EmptyText), row_count, 2, EmptyText)
      ELSE appended

getContent(w, column) ==
  IF column = 1 THEN w.file1_content
  ELSE IF column = 2 THEN w.file2_content
  ELSE << >>

\* One cell of forceVisibleUpdate.
forceCell(w, row, col) ==
  IF row < rowCount(w) /\ item(w, row, col) # NoItem
  THEN setText(w, row, col, lineOrEmpty(w, row, col))
  ELSE w

RECURSIVE forceRows(_, _, _)
forceRows(w, row, last_visible) ==
  IF row > last_visible THEN w
  ELSE forceRows(forceCell(forceCell(w, row, 1), row, 2), row + 1, last_visible)

forceVisibleUpdate(w) ==
  forceRows(w, visibleRowRange(w)[1], visibleRowRange(w)[2])

\* str.lower() on the characters of the texts.
lowerChar(ch) == IF ch = "A" THEN "a" ELSE IF ch = "B" THEN "b" ELSE ch

RECURSIVE lower(_)
lower(line) ==
  IF line = << >> THEN << >> ELSE <<lowerChar(Head(line))>> \o lower(Tail(line))

\* search_term in line
contains(search_term, line) ==
  \E k \in 0..(Len(line) - Len(search_term)) :
    SubSeq(line, k + 1, k + Len(search_term)) = search_term

\* row in matching_rows
inList(row, matching_rows) == \E k \in 1..Len(matching_rows) : matching_rows[k] = row

\* for i, line in enumerate(self.file1_content): the pair <<matching_rows, matches>>
RECURSIVE searchFile1(_, _, _, _)
searchFile1(content, search_term, i, found) ==
  IF i >= Len(content) THEN found
  ELSE searchFile1(content, search_term, i + 1,
         IF contains(search_term, lower(content[i + 1]))
         THEN <<Append(found[1], i), found[2] + 1>> ELSE found)

\* The scan of file2_content without "i not in matching_rows".
RECURSIVE searchFile2CountsAgain(_, _, _, _)
searchFile2CountsAgain(content, search_term, i, found) ==
  IF i >= Len(content) THEN found
  ELSE searchFile2CountsAgain(content, search_term, i + 1,
         IF contains(search_term, lower(content[i + 1]))
         THEN <<Append(found[1], i), found[2] + 1>> ELSE found)

\* for i, line in enumerate(self.file2_content)
RECURSIVE searchFile2(_, _, _, _)
searchFile2(content, search_term, i, found) ==
  IF i >= Len(content) THEN found
  ELSE searchFile2(content, search_term, i + 1,
         IF ~inList(i, found[1]) /\ contains(search_term, lower(content[i + 1]))
         THEN <<Append(found[1], i), found[2] + 1>> ELSE found)

\* matching_rows and matches after the two scans of the data in memory.
searchMemory(w, search_term) ==
  searchFile2(w.file2_content, lower(search_term), 0,
              searchFile1(w.file1_content, lower(search_term), 0, <<<< >>, 0>>))

\* QTableWidgetItem.setBackground: cellChanged is emitted when the brush changes.
setBackground(w, row, col, color) ==
  IF item(w, row, col) = NoItem THEN w
  ELSE IF w.colors[row + 1][col] = color THEN w
  ELSE handleCellChange([w EXCEPT !.colors[row + 1][col] = color], row, col)

\* for col in range(1, self.columnCount()): item.setBackground(color)
paintRow(w, row, color) ==
  setBackground(setBackground(w, row, 1, color), row, 2, color)

\* for row in range(self.rowCount()): every item white
RECURSIVE clearRows(_, _)
clearRows(w, row) ==
  IF row >= rowCount(w) THEN w ELSE clearRows(paintRow(w, row, White), row + 1)

\* for row in range(self.rowCount()): yellow if row in matching_rows else white
RECURSIVE highlightRows(_, _, _)
highlightRows(w, row, matching_rows) ==
  IF row >= rowCount(w) THEN w
  ELSE highlightRows(
         paintRow(w, row, IF inList(row, matching_rows) THEN Yellow ELSE White),
         row + 1, matching_rows)

\* min(matching_rows)
minOf(matching_rows) ==
  CHOOSE m \in {matching_rows[k] : k \in 1..Len(matching_rows)} :
    \A k \in 1..Len(matching_rows) : m <= matching_rows[k]

\* The return value of highlightSearchResults.
highlightSearchResultsResult(w, search_term) ==
  IF search_term = << >> THEN 0 ELSE searchMemory(w, search_term)[2]

\* highlightSearchResults that leaves the rows without a match as they are.
highlightSearchResultsKeepsOld(w, search_term) ==
  IF search_term = << >> THEN w
  ELSE highlightRows(w, 0, searchMemory(w, search_term)[1])

highlightSearchResults(w, search_term) ==
  IF search_term = << >> THEN clearRows(w, 0)
  ELSE LET matching_rows == searchMemory(w, search_term)[1]
           shown == highlightRows(w, 0, matching_rows)
       IN  IF matching_rows # << >>
              /\ ~\E k \in 1..Len(matching_rows) : matching_rows[k] < rowCount(w)
           THEN LET first_match == minOf(matching_rows)
                    loaded == loadContentForRows(shown,
                                Max(0, first_match - visible_rows_buffer),
                                Min(w.total_rows - 1, first_match + visible_rows_buffer))
                IN  paintRow(loaded, first_match, Yellow)
           ELSE shown

\* The batched write without the line jump between batches.
RECURSIVE writeBatchesNoSeparator(_, _, _)
writeBatchesNoSeparator(content, batch, j) ==
  LET total_lines == Len(content)
      end_idx == Min(j + batch, total_lines)
  IN  IF j >= total_lines THEN << >>
      ELSE joinLines(SubSeq(content, j + 1, end_idx))
             \o writeBatchesNoSeparator(content, batch, j + batch)

\* The save of a large file: f.write('\n'.join(content[j:end_idx])) for
\* j = 0, batch, 2 * batch, ..., with a '\n' after every batch but the last.
RECURSIVE writeBatches(_, _, _)
writeBatches(content, batch, j) ==
  LET total_lines == Len(content)
      end_idx == Min(j + batch, total_lines)
  IN  IF j >= total_lines THEN << >>
      ELSE joinLines(SubSeq(content, j + 1, end_idx))
             \o (IF j + batch < total_lines THEN <<NL>> ELSE << >>)
             \o writeBatches(content, batch, j + batch)

\* What saveChanges writes to the file of a column when nothing is cancelled.
writeColumn(content) ==
  IF Len(content) > DetailedProgressLines
  THEN writeBatches(content, batch_size, 0)
  ELSE joinLines(content)

\* save_progress.wasCanceled() never answers True.
NoCancel == 0 - 1

\* The batched write when save_progress.wasCanceled() first answers True
\* after "left" batches (NoCancel: never): the loop breaks before the next one.
RECURSIVE writeBatchesUntil(_, _, _, _)
writeBatchesUntil(content, batch, j, left) ==
  LET total_lines == Len(content)
      end_idx == Min(j + batch, total_lines)
  IN  IF j >= total_lines \/ left = 0 THEN << >>
      ELSE joinLines(SubSeq(content, j + 1, end_idx))
             \o (IF j + batch < total_lines THEN <<NL>> ELSE << >>)
             \o writeBatchesUntil(content, batch, j + batch, left - 1)

\* What one turn of the loop of saveChanges writes to the file of a column.
saveFile(content, left) ==
  IF Len(content) > DetailedProgressLines
  THEN writeBatchesUntil(content, batch_size, 0, left)
  ELSE joinLines(content)

\* ------------------------------------------------------------ MainWindow
VARIABLES
  table,        \* self.table, the VirtualTableWidget
  file1_path,   \* self.file1_path ("" until a file is selected)
  file2_path,   \* self.file2_path
  pc,           \* "idle", or the load whose progress dialog is open
  singleShots,  \* pending QTimer.singleShot(..., forceVisibleUpdate) calls
  lastOp,       \* the handler that ran last
  steps,        \* handler runs so far
  beforeLoad,   \* the store as it was when the load in progress was requested
  worker,       \* self.file_loader, the FileLoaderWorker of the load in progress
  written,      \* what the handler that ran last wrote to the file of each column
  debounce      \* self.scroll_timer followed in ticks of time

vars == <<table, file1_path, file2_path, pc, singleShots, lastOp, steps,
          beforeLoad, worker, written, debounce>>

Paths == {"p"}
Columns == {1, 2}
Directions == {"up", "down"}
\* What the user types into self.search_input.
SearchTerms == {<<"a">>, <<"A", "B">>}

schedule(n) == Min(MaxSingleShots, singleShots + n)

\* The table after fileLoadFinished(file_num, filepath, content).
fileLoadFinished(w, file_num, content) ==
  LET loaded == setContentFromFile(w, file_num, content)
  IN  updateStats(IF file1_path # "" /\ file2_path # ""
                  THEN equalizeFiles(loaded) ELSE loaded)

\* QAbstractItemView.scrollToItem: the least scrolling that shows the row.
scrollToRow(w, row) ==
  IF row < w.scroll THEN setScroll(w, row)
  ELSE IF row > w.scroll + ViewportRows - 1
       THEN setScroll(w, Min(row - ViewportRows + 1, scrollMaximum(w)))
       ELSE w

\* The Line Store part of the widget: the two columns, the row total and the
\* modified rows.
store(w) ==
  [file1_content |-> w.file1_content, file2_content |-> w.file2_content,
   total_rows |-> w.total_rows, modified_rows |-> w.modified_rows]

\* No load is in progress.
NoSnapshot == [file1_content |-> << >>, file2_content |-> << >>,
               total_rows |-> 0 - 1, modified_rows |-> {}]

\* No FileLoaderWorker has been created yet.
NoWorker ==
  [phase |-> "none", text |-> << >>, total_lines |-> 0, i |-> 0, content |-> << >>,
   is_canceled |-> FALSE, signals |-> << >>, handed |-> 0, file_num |-> 0]

\* The file of a column was not opened for writing.
NotWritten == <<"None">>
NoWrites == <<NotWritten, NotWritten>>

\* self.scroll_timer is not active and no scroll event has been handled.
NoDebounce ==
  [remaining |-> 0 - 1, since |-> QuietTicks, burst |-> 0, passes |-> 0, waiting |-> 0]

\* The presses of Cancel during a save: "outer" on the dialog of the files
\* while the first file is written, after1 / after2 on the batch dialog of a
\* column after that many batches (NoCancel: not pressed).
NoCancels == [outer |-> FALSE, after1 |-> NoCancel, after2 |-> NoCancel]
SaveCancels ==
  [outer : BOOLEAN, after1 : {NoCancel, 1, 2}, after2 : {NoCancel, 1, 2}] \ {NoCancels}

\* The batch dialog of a column can be cancelled after "left" batches: the
\* column is written in batches and the loop tests wasCanceled() once more.
batchCancellable(w, column, left) ==
  /\ Len(getContent(w, column)) > DetailedProgressLines
  /\ left * batch_size < Len(getContent(w, column))

\* The cancels that can happen during a save of w.
cancelPossible(w, cancel) ==
  /\ cancel.outer => file1_path # "" /\ file2_path # "" /\ cancel.after2 = NoCancel
  /\ cancel.after1 # NoCancel => file1_path # "" /\ batchCancellable(w, 1, cancel.after1)
  /\ cancel.after2 # NoCancel => file2_path # "" /\ batchCancellable(w, 2, cancel.after2)

\* The loop of saveChanges that leaves at the first cancelled batch dialog.
saveWritesStopsAtCancel(w, cancel) ==
  <<IF file1_path = "" THEN NotWritten ELSE saveFile(getContent(w, 1), cancel.after1),
    IF file2_path = "" \/ (file1_path # "" /\ (cancel.outer \/ cancel.after1 # NoCancel))
    THEN NotWritten ELSE saveFile(getContent(w, 2), cancel.after2)>>

\* The loop over files_to_save: what is written to the file of each column.
saveWrites(w, cancel) ==
  <<IF file1_path = "" THEN NotWritten ELSE saveFile(getContent(w, 1), cancel.after1),
    IF file2_path = "" \/ (file1_path # "" /\ cancel.outer)
    THEN NotWritten ELSE saveFile(getContent(w, 2), cancel.after2)>>

\* One more handler runs.
Step == steps < MaxSteps /\ steps' = steps + 1

Init ==
  /\ table = NewTable
  /\ file1_path = ""
  /\ file2_path = ""
  /\ pc = "idle"
  /\ singleShots = 0
  /\ lastOp = "init"
  /\ steps = 0
  /\ beforeLoad = NoSnapshot
  /\ worker = NoWorker
  /\ written = NoWrites
  /\ debounce = NoDebounce

\* selectFile up to the opening of the progress dialog of loadFile.
SelectFile(file_num, filepath) ==
  /\ Step
  /\ UNCHANGED <<worker, debounce>>
  /\ written' = NoWrites
  /\ pc = "idle"
  /\ file1_path' = IF file_num = 1 THEN filepath ELSE file1_path
  /\ file2_path' = IF file_num = 1 THEN file2_path ELSE filepath
  /\ pc' = IF file_num = 1 THEN "select1" ELSE "select2"
  /\ lastOp' = "selectFile"
  /\ beforeLoad' = store(table)
  /\ UNCHANGED <<table, singleShots>>

loadingColumn == IF pc \in {"select1", "reload1"} THEN 1 ELSE 2

\* What reloadFiles does after the progress dialog of a load has closed.
afterLoad(w) ==
  IF pc = "reload1" /\ file2_path # "" THEN <<w, "reload2">>
  ELSE IF pc \in {"reload1", "reload2"}
       THEN <<updateStats([w EXCEPT !.modified_rows = {}]), "idle">>
       ELSE <<w, "idle">>

\* The worker's finished signal: fileLoadFinished, then the dialog is accepted.
FileLoadFinished(content) ==
  /\ Step
  /\ UNCHANGED <<worker, debounce>>
  /\ written' = NoWrites
  /\ pc # "idle"
  /\ LET done == afterLoad(fileLoadFinished(table, loadingColumn, content))
     IN  /\ table' = done[1]
         /\ pc' = done[2]
  /\ singleShots' = schedule(IF file1_path # "" /\ file2_path # "" THEN 3 ELSE 2)
  /\ lastOp' = IF pc \in {"select1", "select2"} THEN "load" ELSE "reload"
  /\ beforeLoad' = IF afterLoad(table)[2] = "idle" THEN NoSnapshot ELSE beforeLoad
  /\ UNCHANGED <<file1_path, file2_path>>

\* The worker's error signal: fileLoadError rejects the dialog.
FileLoadError ==
  /\ Step
  /\ UNCHANGED <<worker, debounce>>
  /\ written' = NoWrites
  /\ pc # "idle"
  /\ table' = afterLoad(table)[1]
  /\ pc' = afterLoad(table)[2]
  /\ lastOp' = "loadError"
  /\ beforeLoad' = IF afterLoad(table)[2] = "idle" THEN NoSnapshot ELSE beforeLoad
  /\ UNCHANGED <<file1_path, file2_path, singleShots>>

\* reloadFiles up to the opening of the first progress dialog.
ReloadFiles ==
  /\ Step
  /\ UNCHANGED <<worker, debounce>>
  /\ written' = NoWrites
  /\ pc = "idle"
  /\ file1_path # "" \/ file2_path # ""
  /\ table' = [setScroll(table, 0) EXCEPT
                 !.cells = << >>, !.numbers = << >>, !.colors = << >>,
                 !.file1_content = << >>, !.file2_content = << >>,
                 !.total_rows = 0]
  /\ pc' = IF file1_path # "" THEN "reload1" ELSE "reload2"
  /\ lastOp' = "reloadFiles"
  /\ beforeLoad' = store(table)
  /\ UNCHANGED <<file1_path, file2_path, singleShots>>

\* The user commits the editor of a cell: TextEditDelegate.setModelData.
EditCell(row, col, text) ==
  /\ Step
  /\ UNCHANGED <<worker, debounce>>
  /\ written' = NoWrites
  /\ pc = "idle"
  /\ row < rowCount(table)
  /\ item(table, row, col) # text
  /\ table' = IF item(table, row, col) = NoItem THEN setItem(table, row, col, text)
              ELSE setText(table, row, col, text)
  /\ lastOp' = "edit"
  /\ UNCHANGED <<beforeLoad, file1_path, file2_path, pc, singleShots>>

\* MainWindow.moveRow from the context menu of a row of the table.
MoveRow(row_index, direction) ==
  /\ Step
  /\ UNCHANGED <<worker, debounce>>
  /\ written' = NoWrites
  /\ pc = "idle"
  /\ row_index < rowCount(table)
  /\ table' = IF moveRowResult(table, row_index, direction)
              THEN updateStats(moveRow(table, row_index, direction))
              ELSE moveRow(table, row_index, direction)
  /\ lastOp' = IF moveRowResult(table, row_index, direction) THEN "move" ELSE "moveFailed"
  /\ UNCHANGED <<beforeLoad, file1_path, file2_path, pc, singleShots>>

\* MainWindow.deleteRow from the context menu, confirmed.
DeleteRow(row_index) ==
  /\ Step
  /\ UNCHANGED <<worker, debounce>>
  /\ written' = NoWrites
  /\ pc = "idle"
  /\ row_index < rowCount(table)
  /\ table' = IF deleteRowResult(table, row_index)
              THEN updateStats(deleteRow(table, row_index))
              ELSE deleteRow(table, row_index)
  /\ lastOp' = IF deleteRowResult(table, row_index) THEN "delete" ELSE "deleteFailed"
  /\ UNCHANGED <<beforeLoad, file1_path, file2_path, pc, singleShots>>

\* MainWindow.addRow.
AddRow ==
  /\ Step
  /\ UNCHANGED <<worker, debounce>>
  /\ written' = NoWrites
  /\ pc = "idle"
  /\ LET new_row == addEmptyRowResult(table)
         added == updateStats(addEmptyRow(table))
     IN  table' = IF new_row < rowCount(added) /\ item(added, new_row, 1) # NoItem
                  THEN scrollToRow(added, new_row) ELSE added
  /\ lastOp' = "add"
  /\ UNCHANGED <<beforeLoad, file1_path, file2_path, pc, singleShots>>

\* The user moves the vertical scroll bar: handleScroll.
Scroll(value) ==
  /\ Step
  /\ UNCHANGED <<worker, debounce>>
  /\ written' = NoWrites
  /\ pc = "idle"
  /\ value # table.scroll
  /\ value <= scrollMaximum(table)
  /\ table' = setScroll(table, value)
  /\ lastOp' = "scroll"
  /\ UNCHANGED <<beforeLoad, file1_path, file2_path, pc, singleShots>>

\* self.scroll_timer times out: a materialization pass.
ScrollTimeout ==
  /\ Step
  /\ UNCHANGED <<worker, debounce>>
  /\ written' = NoWrites
  /\ table.scroll_timer
  /\ table' = loadVisibleRows([table EXCEPT !.scroll_timer = FALSE])
  /\ lastOp' = "pass"
  /\ UNCHANGED <<beforeLoad, file1_path, file2_path, pc, singleShots>>

\* A QTimer.singleShot times out.
SingleShotTimeout ==
  /\ Step
  /\ UNCHANGED <<worker, debounce>>
  /\ written' = NoWrites
  /\ singleShots > 0
  /\ singleShots' = singleShots - 1
  /\ table' = forceVisibleUpdate(table)
  /\ lastOp' = "force"
  /\ UNCHANGED <<beforeLoad, file1_path, file2_path, pc>>

\* saveChanges, every write succeeding: the files of the selected paths are
\* written (writeColumn) and the set of modified rows is cleared.
SaveChanges ==
  /\ Step
  /\ UNCHANGED <<worker, debounce>>
  /\ written' = saveWrites(table, NoCancels)
  /\ pc = "idle"
  /\ file1_path # "" \/ file2_path # ""
  /\ table' = updateStats([table EXCEPT !.modified_rows = {}])
  /\ lastOp' = "save"
  /\ UNCHANGED <<beforeLoad, file1_path, file2_path, pc, singleShots>>

\* saveChanges with Cancel pressed on a progress dialog: the loops break, the
\* set of modified rows is cleared all the same.
SaveChangesCancelled(cancel) ==
  /\ Step
  /\ UNCHANGED <<worker, debounce>>
  /\ pc = "idle"
  /\ file1_path # "" \/ file2_path # ""
  /\ cancelPossible(table, cancel)
  /\ written' = saveWrites(table, cancel)
  /\ table' = updateStats([table EXCEPT !.modified_rows = {}])
  /\ lastOp' = "saveCancelled"
  /\ UNCHANGED <<beforeLoad, file1_path, file2_path, pc, singleShots>>

\* saveChanges when open() or write() raises: the except branch shows the error.
SaveError ==
  /\ Step
  /\ UNCHANGED <<worker, debounce>>
  /\ written' = NoWrites
  /\ pc = "idle"
  /\ file1_path # "" \/ file2_path # ""
  /\ lastOp' = "saveError"
  /\ UNCHANGED <<beforeLoad, table, file1_path, file2_path, pc, singleShots>>

\* searchText with a term that is not empty after strip().
SearchText(search_term) ==
  /\ Step
  /\ UNCHANGED <<worker, debounce>>
  /\ written' = NoWrites
  /\ pc = "idle"
  /\ search_term # << >>
  /\ table' = highlightSearchResults(table, search_term)
  /\ lastOp' = "search"
  /\ UNCHANGED <<beforeLoad, file1_path, file2_path, pc, singleShots>>

\* clearSearch.
ClearSearch ==
  /\ Step
  /\ UNCHANGED <<worker, debounce>>
  /\ written' = NoWrites
  /\ pc = "idle"
  /\ table' = highlightSearchResults(table, << >>)
  /\ lastOp' = "clearSearch"
  /\ UNCHANGED <<beforeLoad, file1_path, file2_path, pc, singleShots>>

\* The rows the user can reach with the mouse: those shown in the viewport.
VisibleRows ==
  IF rowCount(table) = 0 THEN {}
  ELSE visibleRowRange(table)[1]..visibleRowRange(table)[2]

ScrollValues == 0..scrollMaximum(table)

Next ==
  \/ \E file_num \in Columns, filepath \in Paths : SelectFile(file_num, filepath)
  \/ \E text \in DiskFiles : FileLoadFinished(load_file(text))
  \/ FileLoadError
  \/ ReloadFiles
  \/ \E row \in VisibleRows, col \in Columns, text \in Texts : EditCell(row, col, text)
  \/ \E row \in VisibleRows, direction \in Directions : MoveRow(row, direction)
  \/ \E row \in VisibleRows : DeleteRow(row)
  \/ AddRow
  \/ \E value \in ScrollValues : Scroll(value)
  \/ ScrollTimeout
  \/ SingleShotTimeout
  \/ SaveChanges
  \/ \E cancel \in SaveCancels : SaveChangesCancelled(cancel)
  \/ SaveError
  \/ \E search_term \in SearchTerms : SearchText(search_term)
  \/ ClearSearch

Spec == Init /\ [][Next]_vars

\* ------------------------------------------------------ FileLoaderWorker
\* The load of a file followed through the worker thread, one line at a time.
\* worker.phase: "counting" (first pass), "reading" (second pass), "emit"
\* (the loop was left), "finished" / "failed" (the terminal signal is emitted
\* and queued for the interactive thread), "closed" (the signal was handled).
\* pc is "select1" / "select2" while the progress dialog is open and "wait"
\* while loadFile, the dialog rejected, is blocked in file_loader_thread.wait().
\* worker.signals is the list of the signals emitted so far; the percentage
\* of progress_updated is left out.  The file does not change during a load:
\* an exception is raised by the first pass (open, decoding) or not at all.

\* FileLoaderWorker(filepath) in loadFile; text is what the file holds, and
\* file_num is the column the slot connected to finished will load.
newWorker(text, file_num) ==
  [phase |-> "counting", text |-> text, total_lines |-> 0, i |-> 0, content |-> << >>,
   is_canceled |-> FALSE, signals |-> << >>, handed |-> 0, file_num |-> file_num]

\* if (i % 100 == 0) or (i == total_lines - 1)
progressDue(i, total_lines) == (i % ProgressEvery = 0) \/ (i = total_lines - 1)

\* The loop turn that tests is_canceled after the line is appended.
readLineBreaksLate(k) ==
  LET lines == fileLines(k.text, 1, << >>)
  IN  IF k.i >= Len(lines) THEN [k EXCEPT !.phase = "emit"]
      ELSE LET read == [k EXCEPT !.content = Append(@, rstripNewlines(lines[k.i + 1])),
                                 !.i = @ + 1,
                                 !.phase = IF k.is_canceled THEN "emit" ELSE @]
           IN  IF progressDue(k.i, k.total_lines)
               THEN [read EXCEPT !.signals = Append(@, <<"progress", k.i + 1, k.total_lines>>)]
               ELSE read

\* The loop turn that reports progress only when i % 100 == 0.
readLineNoLastProgress(k) ==
  LET lines == fileLines(k.text, 1, << >>)
  IN  IF k.i >= Len(lines) \/ k.is_canceled THEN [k EXCEPT !.phase = "emit"]
      ELSE LET read == [k EXCEPT !.content = Append(@, rstripNewlines(lines[k.i + 1])),
                                 !.i = @ + 1]
           IN  IF k.i % ProgressEvery = 0
               THEN [read EXCEPT !.signals = Append(@, <<"progress", k.i + 1, k.total_lines>>)]
               ELSE read

\* One turn of "for i, line in enumerate(f)": the loop ends, or breaks on
\* is_canceled, or appends the line and reports progress.
readLine(k) ==
  LET lines == fileLines(k.text, 1, << >>)
  IN  IF k.i >= Len(lines) \/ k.is_canceled THEN [k EXCEPT !.phase = "emit"]
      ELSE LET read == [k EXCEPT !.content = Append(@, rstripNewlines(lines[k.i + 1])),
                                 !.i = @ + 1]
           IN  IF progressDue(k.i, k.total_lines)
               THEN [read EXCEPT !.signals = Append(@, <<"progress", k.i + 1, k.total_lines>>)]
               ELSE read

\* selectFile and loadFile up to progress_dialog.exec(): the thread is started.
WSelectFile(file_num, filepath, text) ==
  /\ steps < MaxLoads
  /\ steps' = steps + 1
  /\ pc = "idle"
  /\ file1_path' = IF file_num = 1 THEN filepath ELSE file1_path
  /\ file2_path' = IF file_num = 1 THEN file2_path ELSE filepath
  /\ pc' = IF file_num = 1 THEN "select1" ELSE "select2"
  /\ worker' = newWorker(text, file_num)
  /\ beforeLoad' = store(table)
  /\ lastOp' = "selectFile"
  /\ UNCHANGED <<table, singleShots, written, debounce>>

\* The first pass of load_file: total_lines is counted.
WCount ==
  /\ worker.phase = "counting"
  /\ worker' = [worker EXCEPT !.phase = "reading",
                              !.total_lines = Len(fileLines(worker.text, 1, << >>))]
  /\ UNCHANGED <<table, file1_path, file2_path, pc, singleShots, lastOp, steps, beforeLoad,
               written, debounce>>

\* The first pass raises: except Exception -> self.error.emit(str(e)).
WFail ==
  /\ worker.phase = "counting"
  /\ worker' = [worker EXCEPT !.phase = "failed", !.signals = Append(@, <<"error">>)]
  /\ UNCHANGED <<table, file1_path, file2_path, pc, singleShots, lastOp, steps, beforeLoad,
               written, debounce>>

\* One turn of the loop of the second pass.
WReadLine ==
  /\ worker.phase = "reading"
  /\ worker' = readLine(worker)
  /\ UNCHANGED <<table, file1_path, file2_path, pc, singleShots, lastOp, steps, beforeLoad,
               written, debounce>>

\* self.finished.emit(content)
WEmitFinished ==
  /\ worker.phase = "emit"
  /\ worker' = [worker EXCEPT !.phase = "finished",
                              !.signals = Append(@, <<"finished", worker.content>>)]
  /\ UNCHANGED <<table, file1_path, file2_path, pc, singleShots, lastOp, steps, beforeLoad,
               written, debounce>>

\* FileLoaderWorker.cancel() called from another thread while load_file runs.
WCancel ==
  /\ worker.phase \in {"counting", "reading"}
  /\ ~worker.is_canceled
  /\ worker' = [worker EXCEPT !.is_canceled = TRUE]
  /\ UNCHANGED <<table, file1_path, file2_path, pc, singleShots, lastOp, steps, beforeLoad,
               written, debounce>>

\* The Cancel button of the progress dialog: clicked is connected to reject,
\* exec() returns and loadFile calls file_loader_thread.quit() and wait().
WPressCancel ==
  /\ pc \in {"select1", "select2"}
  /\ worker.phase \in {"counting", "reading", "emit", "finished", "failed"}
  /\ pc' = "wait"
  /\ lastOp' = "cancelDialog"
  /\ UNCHANGED <<table, file1_path, file2_path, singleShots, steps, beforeLoad,
                 worker, written, debounce>>

\* file_loader_thread.wait() returns when load_file has returned: loadFile
\* and selectFile return, the terminal signal is still queued.
WWaitReturns ==
  /\ pc = "wait"
  /\ worker.phase \in {"finished", "failed"}
  /\ pc' = "idle"
  /\ lastOp' = "loadFileReturned"
  /\ UNCHANGED <<table, file1_path, file2_path, singleShots, steps, beforeLoad,
                 worker, written, debounce>>

\* The interactive thread handles finished: fileLoadFinished, dialog accepted.
WDeliverFinished ==
  /\ worker.phase = "finished"
  /\ pc \in {"select1", "select2", "idle"}
  /\ table' = fileLoadFinished(table, worker.file_num, worker.signals[Len(worker.signals)][2])
  /\ worker' = [worker EXCEPT !.phase = "closed", !.handed = @ + 1]
  /\ pc' = "idle"
  /\ singleShots' = schedule(IF file1_path # "" /\ file2_path # "" THEN 3 ELSE 2)
  /\ lastOp' = "load"
  /\ beforeLoad' = NoSnapshot
  /\ UNCHANGED <<file1_path, file2_path, steps, written, debounce>>

\* The interactive thread handles error: fileLoadError.
WDeliverError ==
  /\ worker.phase = "failed"
  /\ pc \in {"select1", "select2", "idle"}
  /\ worker' = [worker EXCEPT !.phase = "closed"]
  /\ pc' = "idle"
  /\ lastOp' = "loadError"
  /\ beforeLoad' = NoSnapshot
  /\ UNCHANGED <<table, file1_path, file2_path, singleShots, steps, written, debounce>>

\* The user acts on the table between the loads: loads and user actions
\* together are bounded by MaxLoads.
WUser == steps < MaxLoads

WorkerNext ==
  \/ \E file_num \in Columns, filepath \in Paths, text \in DiskFiles :
       WSelectFile(file_num, filepath, text)
  \/ WCount
  \/ WFail
  \/ WReadLine
  \/ WEmitFinished
  \/ WCancel
  \/ WPressCancel
  \/ WWaitReturns
  \/ WDeliverFinished
  \/ WDeliverError
  \/ WUser /\ \E row \in VisibleRows, col \in Columns, text \in Texts :
                EditCell(row, col, text)
  \/ WUser /\ \E row \in VisibleRows, direction \in Directions : MoveRow(row, direction)
  \/ WUser /\ \E row \in VisibleRows : DeleteRow(row)
  \/ WUser /\ AddRow

WorkerSpec == Init /\ [][WorkerNext]_vars

\* ------------------------------------------------------------ scroll timer
\* The single-shot timer of handleScroll followed in ticks of time.  debounce:
\*   remaining  ticks until self.scroll_timer times out, -1 when it is not active
\*   since      ticks since the last scroll event, at most QuietTicks
\*   burst      scroll events of the burst in progress: an event belongs to the
\*              burst of the event before it when fewer than QuietTicks ticks lie between them
\*   passes     timeouts of the timer since the burst began
\*   waiting    scroll events handled since the last timeout
\* Time does not go on while a timeout is due, but the event loop may handle
\* a scroll event that is pending before it runs the timeout.

\* The user moves the vertical scroll bar: handleScroll restarts the timer.
SScroll(value) ==
  /\ Step
  /\ pc = "idle"
  /\ value # table.scroll
  /\ value <= scrollMaximum(table)
  /\ table' = setScroll(table, value)
  /\ debounce' =
       LET continues == debounce.burst > 0 /\ debounce.since < QuietTicks
       IN  [remaining |-> startTimer(debounce.remaining),
            since |-> 0,
            burst |-> IF continues THEN Min(debounce.burst + 1, MaxSteps) ELSE 1,
            passes |-> IF continues THEN debounce.passes ELSE 0,
            waiting |-> Min(debounce.waiting + 1, MaxSteps)]
  /\ lastOp' = "scroll"
  /\ UNCHANGED <<beforeLoad, file1_path, file2_path, pc, singleShots, worker, written>>

\* One tick of time goes by.
STick ==
  /\ debounce.remaining # 0
  /\ debounce.remaining > 0 \/ debounce.since < QuietTicks
  /\ debounce' = [debounce EXCEPT
                    !.remaining = IF @ > 0 THEN @ - 1 ELSE @,
                    !.since = Min(@ + 1, QuietTicks)]
  /\ UNCHANGED <<table, file1_path, file2_path, pc, singleShots, lastOp, steps,
                 beforeLoad, worker, written>>

\* self.scroll_timer times out: loadVisibleRows, a materialization pass.
STimeout ==
  /\ debounce.remaining = 0
  /\ table' = loadVisibleRows([table EXCEPT !.scroll_timer = FALSE])
  /\ debounce' = [debounce EXCEPT !.remaining = 0 - 1, !.passes = Min(@ + 1, 2),
                                  !.waiting = 0]
  /\ lastOp' = "pass"
  /\ UNCHANGED <<file1_path, file2_path, pc, singleShots, steps, beforeLoad,
                 worker, written>>

ScrollNext ==
  \/ \E file_num \in Columns, filepath \in Paths : SelectFile(file_num, filepath)
  \/ \E text \in DiskFiles : FileLoadFinished(load_file(text))
  \/ \E value \in ScrollValues : SScroll(value)
  \/ STick
  \/ STimeout

\* What STimeout does to the timer: it is enabled exactly when STimeout is,
\* and the only steps of ScrollNext that satisfy it are those of STimeout.
TimerFires ==
  /\ debounce.remaining = 0
  /\ debounce' = [debounce EXCEPT !.remaining = 0 - 1, !.passes = Min(@ + 1, 2),
                                  !.waiting = 0]

\* Time goes on, and the event loop runs a timeout that is due.
ScrollSpec ==
  Init /\ [][ScrollNext]_vars /\ WF_vars(STick) /\ WF_debounce(TimerFires)

\* ---------------------------------------------------------------- claims
file1 == table.file1_content
file2 == table.file2_content
otherColumn(column) == 3 - column

\* C1: in every reachable state total_rows equals
\* max(len(file1_content), len(file2_content)), and so is at least the length
\* of each column.
C1_TotalRowsIsMax ==
  /\ table.total_rows = Max(Len(file1), Len(file2))
  /\ table.total_rows >= Len(file1)
  /\ table.total_rows >= Len(file2)

\* A row was deleted while the columns have different lengths.
C1_Witness ==
  /\ lastOp = "delete"
  /\ Len(file1) # Len(file2)
  /\ table.total_rows > 0

\* C2: a load of a file of N lines leaves the file's N lines, in their order,
\* in the loaded column (as setContentFromFile leaves it, and as the first N
\* lines after the whole handler); when the other column is empty the column
\* is exactly these lines and total_rows is N.
C2_LoadReplacesColumn ==
  [][\A text \in DiskFiles :
       FileLoadFinished(load_file(text)) =>
         LET column == loadingColumn
             content == load_file(text)
             N == Len(content)
             loaded == setContentFromFile(table, column, content)
             after == fileContent(table', column)
         IN  /\ text = joinLines(content) \/ text = joinLines(content) \o <<NL>>
             /\ \A i \in 1..N : \A k \in 1..Len(content[i]) : content[i][k] # NL
             /\ fileContent(loaded, column) = content
             /\ Len(after) >= N
             /\ SubSeq(after, 1, N) = content
             /\ Len(fileContent(table, otherColumn(column))) = 0 =>
                  /\ after = content
                  /\ table'.total_rows = N
                  /\ Len(getContent(table', column)) = N
  ]_vars

\* The four-line file was loaded into column 1 while column 2 is empty.
C2_Witness ==
  /\ lastOp = "load"
  /\ file1 = <<<<"b">>, EmptyText, <<"a">>, <<"b">>>>
  /\ file2 = << >>
  /\ table.total_rows = 4

\* C3: after equalizeFiles both columns have total_rows lines, every line that
\* was there before keeps its position and text, and every added line is empty
\* and lies at or after the column's former length.
C3_EqualizePads ==
  [][\A text \in DiskFiles :
       (FileLoadFinished(load_file(text)) /\ file1_path # "" /\ file2_path # "") =>
         LET before == setContentFromFile(table, loadingColumn, load_file(text))
         IN  /\ Len(table'.file1_content) = table'.total_rows
             /\ Len(table'.file2_content) = table'.total_rows
             /\ table'.total_rows = before.total_rows
             /\ \A c \in Columns : \A i \in 1..table'.total_rows :
                  fileContent(table', c)[i] =
                    IF i <= Len(fileContent(before, c)) THEN fileContent(before, c)[i]
                    ELSE EmptyText
  ]_vars

\* Files of three and of two lines: the shorter column got one empty line.
C3_Witness ==
  /\ lastOp = "load"
  /\ file1_path # "" /\ file2_path # ""
  /\ file1 = <<<<"a">>, <<"b">>, <<"a">>>>
  /\ file2 = <<<<"b">>, <<"a">>, EmptyText>>
  /\ table.total_rows = 3

MaterializedRows == 0..(rowCount(table) - 1)

\* Column c of w2 is column c of w1 except, possibly, at the row indices in rows.
sameLinesExcept(w1, w2, c, rows) ==
  /\ Len(fileContent(w2, c)) = Len(fileContent(w1, c))
  /\ \A i \in 0..(Len(fileContent(w1, c)) - 1) :
       i \notin rows => fileContent(w2, c)[i + 1] = fileContent(w1, c)[i + 1]

\* C4: an edit of cell (row, col) with row < total_rows leaves the new text in
\* line row of column col, adds row to modified_rows and changes no other line
\* of either column, nor total_rows.
C4_EditWritesThrough ==
  [][\A row \in MaterializedRows, col \in Columns, text \in Texts :
       (EditCell(row, col, text) /\ row < table.total_rows) =>
         /\ row < Len(fileContent(table', col))
         /\ fileContent(table', col)[row + 1] = text
         /\ table'.modified_rows = table.modified_rows \cup {row}
         /\ sameLinesExcept(table, table', col, {row})
         /\ sameLinesExcept(table, table', otherColumn(col), {})
         /\ table'.total_rows = table.total_rows
  ]_vars

\* The pair of lines of row i; a column that ends before row i shows it empty.
rowPair(w, i) == <<lineOrEmpty(w, i, 1), lineOrEmpty(w, i, 2)>>

\* C5: a successful move exchanges the rows row_index and target in both
\* columns at once (each line keeps its partner), changes no other row and
\* not total_rows, and adds both indices to modified_rows.
C5_MoveSwapsRows ==
  [][\A row \in MaterializedRows, direction \in Directions :
       (MoveRow(row, direction) /\ moveRowResult(table, row, direction)) =>
         LET target == moveTarget(row, direction)
         IN  /\ rowPair(table', target) = rowPair(table, row)
             /\ rowPair(table', row) = rowPair(table, target)
             /\ sameLinesExcept(table, table', 1, {row, target})
             /\ sameLinesExcept(table, table', 2, {row, target})
             /\ table'.total_rows = table.total_rows
             /\ table'.modified_rows = table.modified_rows \cup {row, target}
  ]_vars

\* Column c of w2 is column c of w1 without its line i (unchanged when the
\* column has no line i): the lines before i stay, the lines after i move up.
lineRemoved(w1, w2, c, i) ==
  LET old == fileContent(w1, c)
      new == fileContent(w2, c)
  IN  IF i < Len(old)
      THEN /\ Len(new) = Len(old) - 1
           /\ \A k \in 1..Len(new) : new[k] = IF k <= i THEN old[k] ELSE old[k + 1]
      ELSE new = old

\* C6: a successful delete of row i removes line i from both columns and keeps
\* the order of the other lines, lowers total_rows by exactly 1 and replaces
\* modified_rows M by {j in M : j < i} union {j - 1 : j in M, j > i}.
C6_DeleteRemovesRow ==
  [][\A i \in MaterializedRows :
       (DeleteRow(i) /\ deleteRowResult(table, i)) =>
         /\ lineRemoved(table, table', 1, i)
         /\ lineRemoved(table, table', 2, i)
         /\ table'.total_rows = table.total_rows - 1
         /\ table'.modified_rows =
              {j \in table.modified_rows : j < i}
                \cup {j - 1 : j \in {m \in table.modified_rows : m > i}}
  ]_vars

\* Row 1 of the three-line file was deleted; the marks of rows 0..2 became 0..1.
C6_Witness ==
  /\ lastOp = "delete"
  /\ file1 = <<<<"a">>, <<"a">>>>
  /\ table.total_rows = 2
  /\ table.modified_rows = {0, 1}

\* C7 as stated: after a delete of row i every modified j > i is recorded as
\* j - 1, and i itself is not in modified_rows.
C7_DeletedIndexAbsent ==
  [][\A i \in MaterializedRows :
       (DeleteRow(i) /\ deleteRowResult(table, i)) =>
         /\ \A j \in table.modified_rows : j > i => (j - 1) \in table'.modified_rows
         /\ i \notin table'.modified_rows
  ]_vars

\* C7, amended: after a delete of row i every modified j > i is recorded as
\* j - 1, and i is in modified_rows afterwards only as the new index of a
\* modified row i + 1 (the mark of the deleted row itself is dropped).
C7_DeleteShiftsModified ==
  [][\A i \in MaterializedRows :
       (DeleteRow(i) /\ deleteRowResult(table, i)) =>
         /\ \A j \in table.modified_rows : j > i => (j - 1) \in table'.modified_rows
         /\ i \in table'.modified_rows => (i + 1) \in table.modified_rows
  ]_vars

\* The last of three modified rows was deleted: its mark is gone.
C7_Witness ==
  /\ lastOp = "delete"
  /\ table.total_rows = 2
  /\ table.modified_rows = {0, 1}
  /\ file1 = <<<<"a">>, <<"b">>>>

\* C8: addEmptyRow raises total_rows by exactly 1, returns the new last index
\* total_rows - 1, both columns hold the empty text at that index, and the
\* rows that were there before are unchanged.
C8_AddAppendsEmptyRow ==
  [][AddRow =>
       LET new_row == addEmptyRowResult(table)
       IN  /\ table'.total_rows = table.total_rows + 1
           /\ new_row = table'.total_rows - 1
           /\ \A c \in Columns :
                /\ new_row < Len(fileContent(table', c))
                /\ fileContent(table', c)[new_row + 1] = EmptyText
                /\ \A k \in 1..Len(fileContent(table, c)) :
                     fileContent(table', c)[k] = fileContent(table, c)[k]
  ]_vars

\* C9: moving row i up and then row i - 1 down restores, in both columns, the
\* lines rows i and i - 1 held before, for every i with 1 <= i < total_rows.
C9_MoveRoundTrip ==
  pc = "idle" =>
    \A i \in 1..(table.total_rows - 1) :
      i < rowCount(table) =>
        LET back == moveRow(moveRow(table, i, "up"), i - 1, "down")
        IN  \A c \in Columns :
              /\ sameLinesExcept(table, back, c, {})
              /\ rowPair(back, i) = rowPair(table, i)
              /\ rowPair(back, i - 1) = rowPair(table, i - 1)

\* The rows a materialization pass that starts in w loads: startRow..endRow.
targetRange(w) == startRow(w)..endRow(w)

\* Every store line of the rows in range that is not empty has a cell that is
\* not empty.
rangeShown(w, range) ==
  \A r \in range : \A c \in Columns :
    lineOrEmpty(w, r, c) # EmptyText =>
      /\ item(w, r, c) # NoItem
      /\ item(w, r, c) # EmptyText

\* C10: after a materialization pass that read the visible range [v0, v1],
\* every row of [max(0, v0 - buffer), min(total_rows - 1, v1 + buffer)] has, in
\* both content columns, a cell that is not empty wherever the store holds a
\* line that is not empty. The pass runs on the scroll timer and inside
\* setContentFromFile.
C10_PassShowsRange ==
  [][/\ ScrollTimeout => rangeShown(table', targetRange(table))
     /\ \A text \in DiskFiles :
          FileLoadFinished(load_file(text)) =>
            LET read == [table EXCEPT !.total_rows =
                           IF loadingColumn = 1
                           THEN Max(Len(load_file(text)), Len(table.file2_content))
                           ELSE Max(Len(table.file1_content), Len(load_file(text)))]
            IN  rangeShown(table', targetRange(read))
  ]_vars

\* A pass on the scroll timer created row 4 and filled it from the store.
C10_Witness ==
  /\ lastOp = "pass"
  /\ rowCount(table) >= 4
  /\ item(table, 3, 1) = <<"b">>
  /\ file1[4] = <<"b">>

\* Row indices around the ends of the table, inside and outside [0, total_rows - 1].
IndicesAround(w) == (0 - 1)..(w.total_rows + 1)

\* C11: a move whose target row is before row 0 or at or past total_rows, and
\* a delete whose index is outside [0, total_rows - 1], return False and leave
\* the whole widget (both columns, total_rows, modified_rows, the materialized
\* rows) as it was; checked for the handlers run from the context menu and for
\* the two methods on every index around the ends of the table.
C11_OutOfRangeIsNoOp ==
  [][/\ \A row \in MaterializedRows, direction \in Directions :
          (MoveRow(row, direction) /\ ~moveRowResult(table, row, direction)) =>
            table' = table
     /\ \A row \in MaterializedRows :
          (DeleteRow(row) /\ ~deleteRowResult(table, row)) => table' = table
     /\ \A i \in IndicesAround(table), direction \in Directions :
          (moveTarget(i, direction) < 0 \/ moveTarget(i, direction) >= table.total_rows) =>
            /\ ~moveRowResult(table, i, direction)
            /\ moveRow(table, i, direction) = table
     /\ \A i \in IndicesAround(table) :
          (i < 0 \/ i > table.total_rows - 1) =>
            /\ ~deleteRowResult(table, i)
            /\ deleteRow(table, i) = table
  ]_vars

\* The last row of a table of two or more rows was asked to move down.
C11_Witness ==
  /\ lastOp = "moveFailed"
  /\ table.total_rows >= 2
  /\ table.scroll = table.total_rows - 1
  /\ table.modified_rows # {}

\* C12: an edit of a cell of a row at or past total_rows changes neither the
\* two columns nor modified_rows.
C12_EditPastEndRejected ==
  [][\A row \in MaterializedRows, col \in Columns, text \in Texts :
       (EditCell(row, col, text) /\ row >= table.total_rows) =>
         /\ table'.file1_content = table.file1_content
         /\ table'.file2_content = table.file2_content
         /\ table'.modified_rows = table.modified_rows
  ]_vars

\* Number of line jumps in a text.
RECURSIVE countNL(_)
countNL(text) ==
  IF text = << >> THEN 0
  ELSE (IF Head(text) = NL THEN 1 ELSE 0) + countNL(Tail(text))

\* C14: what a save that is not cancelled writes for a column of N lines is
\* '\n'.join(lines), on the direct path and on the batched path, and the
\* batched write equals the direct one for every batch size 1..MaxBatch: N
\* lines separated by N - 1 line jumps, none added at a batch boundary or at
\* the end.
C14_BatchedSaveIsJoin ==
  [][SaveChanges =>
       \A column \in Columns :
         LET content == getContent(table, column)
         IN  /\ writeColumn(content) = joinLines(content)
             /\ \A b \in 1..MaxBatch : writeBatches(content, b, 0) = joinLines(content)
             /\ Len(content) > 0 => countNL(writeColumn(content)) = Len(content) - 1
  ]_vars

\* Five lines were saved in batches, the last batch shorter than the others.
C14_Witness ==
  /\ lastOp = "save"
  /\ file1_path # ""
  /\ Len(file1) = 5
  /\ Len(file1) > DetailedProgressLines
  /\ Len(file1) % batch_size # 0

\* C15: a save empties modified_rows and leaves both columns and total_rows
\* as they are; every other change of modified_rows is an edit or a move,
\* which only add rows, or a delete, which re-indexes the set.
C15_ModifiedOnlyByEdits ==
  [][/\ SaveChanges =>
          /\ table'.modified_rows = {}
          /\ table'.file1_content = table.file1_content
          /\ table'.file2_content = table.file2_content
          /\ table'.total_rows = table.total_rows
     /\ table'.modified_rows # table.modified_rows =>
          lastOp' \in {"save", "edit", "move", "delete"}
     /\ lastOp' \in {"edit", "move"} => table.modified_rows \subseteq table'.modified_rows
     /\ \A i \in MaterializedRows :
          (DeleteRow(i) /\ deleteRowResult(table, i)) =>
            table'.modified_rows = reindexModified(table.modified_rows, i)
  ]_vars

\* The rows of the store where the term occurs in column 1 or in column 2,
\* letter case ignored.
rowsWithTerm(w, term) ==
  {i \in 0..(w.total_rows - 1) :
     \/ contains(lower(term), lower(lineOrEmpty(w, i, 1)))
     \/ contains(lower(term), lower(lineOrEmpty(w, i, 2)))}

\* C18: a search for a term that is not empty returns the number of distinct
\* rows of the store, materialized or not, where the term occurs in the line
\* of column 1 or of column 2, letter case ignored; a row with the term in
\* both columns counts once.
C18_SearchCountsRows ==
  [][\A term \in SearchTerms :
       SearchText(term) =>
         highlightSearchResultsResult(table, term) = Cardinality(rowsWithTerm(table, term))
  ]_vars

\* A search ran on two columns that both hold the term in row 0 and hold it
\* in a row that is not materialized.
C18_Witness ==
  /\ lastOp = "search"
  /\ Len(file1) >= 1 /\ Len(file2) >= 1
  /\ file1[1] = <<"a">> /\ file2[1] = <<"a">>
  /\ \E i \in rowsWithTerm(table, <<"a">>) : i >= rowCount(table)

\* The cells of the table that are highlighted.
highlighted(w) ==
  {rc \in (0..(rowCount(w) - 1)) \X Columns :
     item(w, rc[1], rc[2]) # NoItem /\ w.colors[rc[1] + 1][rc[2]] = Yellow}

\* C19: the search with the empty term returns 0 and leaves no cell
\* highlighted, whatever was highlighted before; a second call returns 0 again
\* and changes nothing.
C19_EmptySearchClears ==
  [][ClearSearch =>
       /\ highlightSearchResultsResult(table, << >>) = 0
       /\ highlighted(table') = {}
       /\ highlightSearchResultsResult(table', << >>) = 0
       /\ highlightSearchResults(table', << >>) = table'
  ]_vars

\* The search was cleared and left the items of row 0 white.
C19_Witness ==
  /\ lastOp = "clearSearch"
  /\ rowCount(table) >= 1
  /\ table.colors[1] = <<White, White>>
  /\ file1 # << >>

\* C20: whenever no load is running and no materialization pass or forced
\* update is pending, every cell of a materialized row shows the line of the
\* store at its row and column (the empty text past the end of the column),
\* or is an empty placeholder.
C20_ViewShowsStore ==
  (pc = "idle" /\ ~table.scroll_timer /\ singleShots = 0) =>
    \A i \in MaterializedRows : \A c \in Columns :
      item(table, i, c) # NoItem =>
        \/ item(table, i, c) = EmptyText
        \/ item(table, i, c) = lineOrEmpty(table, i, c)

\* C13: when a load fails, both columns, total_rows and modified_rows are what
\* they were when the load was requested, by selectFile or by reloadFiles.
C13_FailedLoadChangesNothing ==
  [][FileLoadError => store(table') = beforeLoad]_vars

\* p is a prefix of s.
isPrefix(p, s) == Len(p) <= Len(s) /\ SubSeq(s, 1, Len(p)) = p

\* The last signal the worker emitted.
lastSignal(k) == k.signals[Len(k.signals)]

\* C16: once is_canceled is set, the next turn of the read loop leaves the
\* loop without appending a line or reporting progress; the worker then emits
\* finished (failure is only ever emitted by the first pass) with the lines
\* read so far, a prefix of the file's lines; and the interactive thread
\* applies that list with fileLoadFinished as it applies a complete one, so
\* the loaded column starts with exactly these lines.
C16_CancelledLoadIsPrefix ==
  [][/\ (WReadLine /\ worker.is_canceled) =>
          /\ worker'.phase = "emit"
          /\ worker'.content = worker.content
          /\ worker'.signals = worker.signals
     /\ WEmitFinished =>
          /\ lastSignal(worker') = <<"finished", worker.content>>
          /\ isPrefix(worker.content, load_file(worker.text))
          /\ ~worker.is_canceled => worker.content = load_file(worker.text)
          /\ \A n \in 1..Len(worker'.signals) : worker'.signals[n][1] # "error"
     /\ (worker'.phase = "failed" /\ worker.phase # "failed") =>
          worker.phase = "counting" /\ worker.content = << >>
     /\ WDeliverFinished =>
          /\ table' = fileLoadFinished(table, worker.file_num, worker.content)
          /\ isPrefix(worker.content, fileContent(table', worker.file_num))
          /\ pc' = "idle" /\ lastOp' = "load"
  ]_vars

\* A load cancelled after one line of a longer file was applied to column 1.
C16_Witness ==
  /\ lastOp = "load"
  /\ worker.phase = "closed"
  /\ worker.is_canceled
  /\ Len(worker.content) = 1
  /\ Len(load_file(worker.text)) > 1
  /\ file1 = worker.content
  /\ table.total_rows = 1

\* The lines-loaded counts of the progress signals emitted so far, in order.
progressCounts(k) ==
  LET isProgress(sig) == sig[1] = "progress"
      reports == SelectSeq(k.signals, isProgress)
  IN  [n \in 1..Len(reports) |-> reports[n][2]]

\* Positions of the terminal signals (finished, error) in the emitted signals.
terminals(k) == {n \in 1..Len(k.signals) : k.signals[n][1] \in {"finished", "error"}}

\* C17: the worker emits progress signals and then exactly one terminal
\* signal, finished or error, and nothing after it; a read that is not
\* cancelled of a file of N > 0 lines reports progress exactly for the line
\* indices i with i % ProgressEvery = 0 or i = N - 1, with lines loaded i + 1
\* rising strictly and total N, the last report being (N, N); the list is
\* handed to fileLoadFinished at most once, and only after finished.
C17_OneTerminalSignal ==
  LET N == Len(fileLines(worker.text, 1, << >>))
      counts == progressCounts(worker)
  IN  /\ Cardinality(terminals(worker)) <= 1
      /\ terminals(worker) \subseteq {Len(worker.signals)}
      /\ worker.phase \in {"finished", "failed", "closed"} <=> terminals(worker) # {}
      /\ \A n \in 1..(Len(counts) - 1) : counts[n] < counts[n + 1]
      /\ \A n \in 1..Len(worker.signals) :
           worker.signals[n][1] = "progress" => worker.signals[n][3] = N
      /\ (/\ worker.phase \in {"finished", "closed"}
          /\ lastSignal(worker)[1] = "finished"
          /\ ~worker.is_canceled
          /\ N > 0) =>
           /\ \A i \in 0..(N - 1) :
                (\E n \in 1..Len(counts) : counts[n] = i + 1)
                  <=> (i % ProgressEvery = 0 \/ i = N - 1)
           /\ counts[Len(counts)] = N
           /\ lastSignal(worker) = <<"finished", load_file(worker.text)>>
      /\ worker.handed <= 1
      /\ worker.handed = 1 =>
           worker.phase = "closed" /\ lastSignal(worker)[1] = "finished"

\* The six-line file was read to its end: progress for lines 1, 3, 5 and 6,
\* then finished, and its list was handed over once.
C17_Witness ==
  /\ worker.phase = "closed"
  /\ ~worker.is_canceled
  /\ worker.handed = 1
  /\ Len(worker.content) = 6
  /\ Len(worker.signals) = 5
  /\ progressCounts(worker)[Len(progressCounts(worker))] = 6

\* ---------------------------------------------------------------- C21
\* Both paths are set.
bothPresent == file1_path # "" /\ file2_path # ""

\* len(lines[1]) == len(lines[2]) == totalRows.
equalLengths(w) ==
  Len(w.file1_content) = w.total_rows /\ Len(w.file2_content) = w.total_rows

\* C21: a load that finishes while both files are present leaves both columns
\* with exactly total_rows lines, and from a state where both files are present
\* and the three lengths agree every step (edits, moves, deletes and inserts
\* among them) leads to a state where they agree again.
C21_LengthsStayEqual ==
  [][/\ (\E text \in DiskFiles : FileLoadFinished(load_file(text))) /\ bothPresent
        => equalLengths(table')
     /\ bothPresent /\ equalLengths(table) => equalLengths(table')]_vars

\* An insert after a load of two files of different lengths.
C21_Witness ==
  /\ lastOp = "add"
  /\ bothPresent
  /\ table.total_rows = 3
  /\ file1[1] # EmptyText
  /\ file2[1] = EmptyText
  /\ equalLengths(table)

\* ---------------------------------------------------------------- C22
\* The number of materialized rows a pass over w must leave.
passRowCount(w) ==
  IF w.total_rows = 0 THEN rowCount(w)
  ELSE Max(rowCount(w), Min(w.total_rows - 1, visibleRowRange(w)[2] + visible_rows_buffer) + 1)

\* C22: a materialization pass leaves max(previous count, min(total_rows - 1,
\* last visible + buffer) + 1) materialized rows when total_rows > 0 and leaves
\* the whole widget as it was when total_rows = 0; a scroll event leaves the
\* count alone; so neither ever lowers the count, and the pass creates no row
\* beyond the last row of the target range.
C22_PassGrowsToTarget ==
  [][/\ ScrollTimeout =>
          /\ rowCount(table') = passRowCount(table)
          /\ rowCount(table') >= rowCount(table)
          /\ rowCount(table') > rowCount(table) => rowCount(table') = endRow(table) + 1
          /\ table.total_rows = 0 => table' = [table EXCEPT !.scroll_timer = FALSE]
     /\ (\E value \in ScrollValues : Scroll(value)) => rowCount(table') = rowCount(table)]_vars

\* A pass has grown the view of a six-line file from three rows to five.
C22_Witness ==
  /\ lastOp = "pass"
  /\ table.total_rows = 6
  /\ table.scroll = 2
  /\ rowCount(table) = 5

\* ---------------------------------------------------------------- C29
\* C29: in every reachable state the number widget of each materialized row
\* at index i shows i + 1.
C29_NumbersFollowIndex ==
  \A i \in MaterializedRows : table.numbers[i + 1] = i + 1

\* The first of several materialized rows has just been deleted.
C29_Witness ==
  /\ lastOp = "delete"
  /\ rowCount(table) >= 2
  /\ table.total_rows = 2
  /\ file1 = <<EmptyText, <<"a">>>>

\* ---------------------------------------------------------------- C30
\* C30: a materialization pass and a search leave both columns' lines,
\* total_rows and modified_rows as they were.
C30_ViewOperationsKeepStore ==
  [][(\/ ScrollTimeout
      \/ \E search_term \in SearchTerms : SearchText(search_term))
     => store(table') = store(table)]_vars

\* ---------------------------------------------------------------- C24
\* C24: addEmptyRow adds a row to the view exactly when the index of the new
\* line is at most last visible + buffer; the row it adds is then the row of
\* that index, numbered index + 1, with empty text in both columns; otherwise
\* the rows of the view stay as they were.
C24_AddMaterializesNewIndex ==
  [][AddRow =>
       LET new_row == table.total_rows
           shown == new_row <= visibleRowRange(table)[2] + visible_rows_buffer
       IN  /\ shown <=> rowCount(table') = rowCount(table) + 1
           /\ shown => /\ rowCount(table') = new_row + 1
                       /\ table'.numbers[new_row + 1] = new_row + 1
                       /\ item(table', new_row, 1) = EmptyText
                       /\ item(table', new_row, 2) = EmptyText
           /\ ~shown => /\ table'.cells = table.cells
                        /\ table'.numbers = table.numbers]_vars

\* ---------------------------------------------------------------- C28
\* The statistics computed from the store of w.
statsOf(w) ==
  <<w.total_rows, countWords(w, 1), countWords(w, 2), Cardinality(w.modified_rows)>>

\* C28: after each completed edit, move, delete, insert, load, save and reload
\* the four labels show total_rows, the words of column 1, the words of column
\* 2 and the number of modified rows of the store as it then is.
C28_StatsShowStore ==
  [][(/\ steps' # steps
      /\ lastOp' \in {"edit", "move", "delete", "add", "load", "save", "reload"}
      /\ pc' = "idle")
     => table'.stats = statsOf(table')]_vars

\* ---------------------------------------------------------------- C27
\* C27: in a save of two files, Cancel pressed on the batch dialog of the
\* first file after k batches leaves in that file the first k batches, each
\* followed by its newline: a prefix of join(lines, newline); the second file
\* is written in full.
C27_CancelledBatchIsPrefix ==
  [][\A cancel \in SaveCancels :
       (/\ SaveChangesCancelled(cancel)
        /\ bothPresent
        /\ cancel.after1 # NoCancel /\ ~cancel.outer /\ cancel.after2 = NoCancel)
       => /\ written'[1] =
               joinLines(SubSeq(file1, 1, cancel.after1 * batch_size)) \o <<NL>>
          /\ isPrefix(written'[1], joinLines(file1))
          /\ written'[2] = joinLines(file2)]_vars

\* A save of two files of six lines; the first was cancelled after one batch.
C27_Witness ==
  /\ lastOp = "saveCancelled"
  /\ bothPresent
  /\ table.total_rows = 6
  /\ written[1] = <<"a", NL, "b", NL>>
  /\ written[2] = joinLines(file2)
  /\ Len(written[2]) > Len(written[1])

\* ---------------------------------------------------------------- C23
\* C23 as stated: a burst of scroll events, each fewer than QuietTicks ticks
\* after the one before, causes exactly one materialization pass (never more
\* than one, and one by the time the timer is at rest or the next burst
\* begins); the pass runs only when QuietTicks ticks have gone by since the
\* last event; and every scroll event is eventually followed by a pass.
C23_OnePassPerBurst ==
  /\ [](/\ debounce.passes <= 1
        /\ debounce.burst > 0 /\ debounce.remaining < 0 => debounce.passes = 1)
  /\ [][/\ STimeout => debounce.since >= QuietTicks
        /\ lastOp' = "scroll" /\ steps' # steps /\ debounce'.burst = 1 /\ debounce.burst > 0
             => debounce.passes = 1]_vars
  /\ (debounce.remaining >= 0) ~> (lastOp = "pass" /\ debounce.remaining < 0)

\* C23, amended: the scroll events handled since the last timeout of the timer
\* are followed by one pass: the timer is running exactly while such events
\* wait, every scroll event restarts it with the full interval, its timeout
\* runs only when QuietTicks ticks have gone by since the last of them, and
\* every scroll event is eventually followed by a pass.
C23_OnePassPerTimerRun ==
  /\ [](/\ debounce.waiting > 0 <=> debounce.remaining >= 0
        /\ table.scroll_timer <=> debounce.remaining >= 0)
  /\ [][/\ STimeout => debounce.since >= QuietTicks /\ debounce.waiting >= 1
        /\ lastOp' = "scroll" /\ steps' # steps => debounce'.remaining = QuietTicks]_vars
  /\ (debounce.remaining >= 0) ~> (lastOp = "pass" /\ debounce.remaining < 0)

\* Three scroll events have been followed by one pass, which has materialized
\* the rows around the last position.
C23_Witness ==
  /\ lastOp = "pass"
  /\ debounce.burst = 3
  /\ debounce.passes = 1
  /\ table.scroll = 2
  /\ rowCount(table) = 5

\* ---------------------------------------------------------------- C26
\* C26: when Cancel is pressed on the progress dialog while the worker is
\* still reading, the cancellation flag of the worker becomes set.
C26_CancelSetsFlag ==
  [][WPressCancel /\ worker.phase \in {"counting", "reading"}
     => worker'.is_canceled]_vars

\* ---------------------------------------------------------------- C25
\* A load has been started, it has not failed, and its result has not been
\* applied to the store yet.
loadInFlight == worker.phase \in {"counting", "reading", "emit", "finished"}

C33_RowsWithinTotal == rowCount(table) <= table.total_rows

\* ---------------------------------------------------------------- C34
\* C34: in every reachable state with no load in flight every member of
\* modified_rows is a row index of the store, 0 <= j < total_rows.
C34_ModifiedRowsAreIndices ==
  pc = "idle" => \A j \in table.modified_rows : 0 <= j /\ j < table.total_rows

\* ---------------------------------------------------------------- C36
\* C36: a save that is cancelled before or during the writing of a file
\* leaves modified_rows as it was.
C36_CancelledSaveKeepsModified ==
  [][(\E cancel \in SaveCancels : SaveChangesCancelled(cancel))
     => table'.modified_rows = table.modified_rows]_vars

\* ---------------------------------------------------------------- C35
\* C35: loading the file a completed save wrote for a column yields exactly
\* the line sequence the column held when it was saved: the same number of
\* lines and the same text at every index.
C35_SaveThenLoadIsIdentity ==
  [][SaveChanges =>
       \A c \in Columns :
         written'[c] # NotWritten => load_file(written'[c]) = fileContent(table, c)]_vars

\* ---------------------------------------------------------------- C32
\* The program when every load fails (the file cannot be opened or decoded):
\* no load ever completes, columns hold only what the user put in them.
LoadFailsNext ==
  \/ \E file_num \in Columns, filepath \in Paths : SelectFile(file_num, filepath)
  \/ FileLoadError
  \/ ReloadFiles
  \/ \E row \in VisibleRows, col \in Columns, text \in Texts : EditCell(row, col, text)
  \/ \E row \in VisibleRows, direction \in Directions : MoveRow(row, direction)
  \/ \E row \in VisibleRows : DeleteRow(row)
  \/ AddRow
  \/ SaveChanges
  \/ \E cancel \in SaveCancels : SaveChangesCancelled(cancel)

LoadFailsSpec == Init /\ [][LoadFailsNext]_vars

\* C32: save writes to a column's path only content that comes from a
\* completed load of that path; as long as no load of a selected path has
\* completed, no save writes a column's in-memory content to that path.
C32_FailedLoadIsNotSaved ==
  \A c \in Columns : written[c] = NotWritten

\* ---------------------------------------------------------------- C31
\* The rows the materialization pass inside setContentFromFile(column, content)
\* loads when it starts from w.
loadRange(w, column, content) ==
  LET loaded == IF column = 1 THEN [w EXCEPT !.file1_content = content]
                ELSE [w EXCEPT !.file2_content = content]
  IN  targetRange([loaded EXCEPT !.total_rows =
                     Max(Len(loaded.file1_content), Len(loaded.file2_content))])

\* C31: when a load replaces a column of a table that has rows, then after the
\* pass of that load and the forced update of the visible rows it schedules,
\* every cell of that column in the rows of the pass shows the line the store
\* now holds for its row, none the text of the file loaded before.
C31_LoadedColumnShowsNewLines ==
  [][\A text \in DiskFiles :
       (FileLoadFinished(load_file(text)) /\ rowCount(table) > 0) =>
         LET shown == forceVisibleUpdate(table')
         IN  \A r \in loadRange(table, loadingColumn, load_file(text)) :
               (r < rowCount(shown) /\ item(shown, r, loadingColumn) # NoItem) =>
                 item(shown, r, loadingColumn) = lineOrEmpty(table', r, loadingColumn)]_vars
====
